---- MODULE Spec2Model ----
(***************************************************************************)
(* Model of waffda/types.py: the Type wrapper around the host's            *)
(* type-information objects (tinfo_t), its constructor, its accessors and  *)
(* mutators, and the host calls they make.                                 *)
(*                                                                         *)
(* Python strings are sequences of tokens; a token is a record [s, n]      *)
(* (a word or punctuation mark s, or the number n when s = "#").  Host     *)
(* types are records built by HT.  Type objects live in a heap (a          *)
(* sequence of records, an object's identity is its index) because the     *)
(* code shares references (set_contained_type, get_ret_type) in some       *)
(* places and clones in others.                                            *)
(***************************************************************************)
EXTENDS Integers, Sequences, FiniteSets, TLC

\* ---------------------------------------------------------------- bounds
\* Objects on the heap, per specification.
MaxInitObjs == 2
MaxFlagObjs == 1
MaxSizeObjs == 3
MaxBoxObjs == 3
MaxCCObjs == 3
MaxAccessObjs == 2
\* Raw calling conventions the host reports: one byte.
MaxRawCC == 255
\* Element counts passed to get_array_of and set_element_count.
MaxCount == 2

\* ---------------------------------------------------------------- tokens
Tok(w) == [s |-> w, n |-> 0]
Num(k) == [s |-> "#", n |-> k]
Semi == Tok(";")

\* ------------------------------------------------------------ host types
\* idaapi.tinfo_t values.  k: "empty" | "prim" | "ptr" | "array" | "func" |
\* "struct"; sub holds the pointed/element/return type (0 or 1 entries),
\* args the parameter types, n the element count or the raw calling
\* convention.
HT(k, name, c, v, n, sub, args) ==
    [k |-> k, name |-> name, c |-> c, v |-> v, n |-> n, sub |-> sub, args |-> args]

HEmpty == HT("empty", "", FALSE, FALSE, 0, <<>>, <<>>)
HPrim(name, c, v) == HT("prim", name, c, v, 0, <<>>, <<>>)
HStruct(name, c, v) == HT("struct", name, c, v, 0, <<>>, <<>>)
HPtr(t, c, v) == HT("ptr", "", c, v, 0, <<t>>, <<>>)
HArray(t, n) == HT("array", "", FALSE, FALSE, n, <<t>>, <<>>)
HFunc(ret, args, cc) == HT("func", "", FALSE, FALSE, cc, <<ret>>, args)

\* Type names the host's type library knows.
HostNames == {"void", "char", "int", "int32_t", "uint32_t", "bool"}
StructNames == {"S"}

\* tinfo_t.get_size() of a named type.
HostPrimSize(name) ==
    CASE name = "char" -> 1
      [] name = "bool" -> 1
      [] name = "int" -> 4
      [] name = "int32_t" -> 4
      [] name = "uint32_t" -> 4
      [] OTHER -> -1

Quals(c, v) ==
    (IF c THEN <<Tok("const")>> ELSE <<>>) \o (IF v THEN <<Tok("volatile")>> ELSE <<>>)

RECURSIVE dstrOf(_, _)
\* tinfo_t.dstr(): the host's rendering of a type.  e is the host's
\* rendering of the empty tinfo_t.
dstrOf(t, e) ==
    CASE t.k = "empty" -> e
      [] t.k = "prim" -> Quals(t.c, t.v) \o <<Tok(t.name)>>
      [] t.k = "struct" -> Quals(t.c, t.v) \o <<Tok("struct"), Tok(t.name)>>
      [] t.k = "array" -> dstrOf(t.sub[1], e) \o <<Tok("["), Num(t.n), Tok("]")>>
      [] t.k = "ptr" /\ t.sub[1].k = "func" ->
            LET f == t.sub[1]
                RECURSIVE Join(_)
                Join(i) == IF i > Len(f.args) THEN <<>>
                           ELSE (IF i > 1 THEN <<Tok(",")>> ELSE <<>>)
                                \o dstrOf(f.args[i], e) \o Join(i + 1)
            IN dstrOf(f.sub[1], e)
               \o <<Tok("("), Num(f.n), Tok("*")>> \o Quals(t.c, t.v) \o <<Tok(")")>>
               \o <<Tok("(")>> \o Join(1) \o <<Tok(")")>>
      [] t.k = "ptr" -> dstrOf(t.sub[1], e) \o <<Tok("*")>> \o Quals(t.c, t.v)
      [] OTHER -> e

\* ----------------------------------------------------------- host parser
HFail == HT("fail", "", FALSE, FALSE, 0, <<>>, <<>>)

Rest(s, i) == SubSeq(s, i, Len(s))
IsW(s, i, w) == i <= Len(s) /\ s[i] = Tok(w)
IsN(s, i) == i <= Len(s) /\ s[i].s = "#"

\* Number of leading const/volatile tokens of s from position i (at most
\* one of each).
QualLen(s, i) ==
    IF IsW(s, i, "const") /\ IsW(s, i + 1, "volatile") THEN 2
    ELSE IF IsW(s, i, "volatile") /\ IsW(s, i + 1, "const") THEN 2
    ELSE IF IsW(s, i, "const") \/ IsW(s, i, "volatile") THEN 1
    ELSE 0
HasQ(s, i, w) == LET k == QualLen(s, i) IN \E j \in i..(i + k - 1) : s[j] = Tok(w)

RECURSIVE CloseAt(_, _, _)
\* Index of the ")" matching an already opened "(", scanning from i at
\* nesting depth d; 0 when there is none.
CloseAt(s, i, d) ==
    IF i > Len(s) THEN 0
    ELSE IF s[i] = Tok("(") THEN CloseAt(s, i + 1, d + 1)
    ELSE IF s[i] = Tok(")") THEN (IF d = 0 THEN i ELSE CloseAt(s, i + 1, d - 1))
    ELSE CloseAt(s, i + 1, d)

RECURSIVE CommaAt(_, _, _)
\* Index of the first "," of s at nesting depth 0 from i; 0 when none.
CommaAt(s, i, d) ==
    IF i > Len(s) THEN 0
    ELSE IF s[i] = Tok("(") THEN CommaAt(s, i + 1, d + 1)
    ELSE IF s[i] = Tok(")") THEN CommaAt(s, i + 1, d - 1)
    ELSE IF s[i] = Tok(",") /\ d = 0 THEN i
    ELSE CommaAt(s, i + 1, d)

RECURSIVE ParseType(_)
RECURSIVE ParseSuffix(_, _)
RECURSIVE ParseArgs(_)

\* The parameter list between the parentheses: a sequence of host types, or
\* <<HFail>> when one of them does not parse.
ParseArgs(s) ==
    IF s = <<>> THEN <<>>
    ELSE LET c == CommaAt(s, 1, 0)
             first == ParseType(IF c = 0 THEN s ELSE SubSeq(s, 1, c - 1))
             more == IF c = 0 THEN <<>> ELSE
                     IF c = Len(s) THEN <<HFail>> ELSE ParseArgs(Rest(s, c + 1))
         IN IF first = HFail \/ (more # <<>> /\ more[1] = HFail) THEN <<HFail>>
            ELSE <<first>> \o more

\* The declarator suffixes applied, left to right, to the type t.
ParseSuffix(t, s) ==
    IF s = <<>> THEN t
    ELSE IF IsW(s, 1, "*") THEN
        LET k == QualLen(s, 2)
        IN ParseSuffix(HPtr(t, HasQ(s, 2, "const"), HasQ(s, 2, "volatile")), Rest(s, 2 + k))
    ELSE IF IsW(s, 1, "[") THEN
        IF IsN(s, 2) /\ IsW(s, 3, "]") /\ t.k # "func"
        THEN ParseSuffix(HArray(t, s[2].n), Rest(s, 4))
        ELSE HFail
    ELSE IF IsW(s, 1, "(") THEN
        IF IsN(s, 2) /\ IsW(s, 3, "*")
        THEN LET k == QualLen(s, 4)
                 o == 5 + k
             IN IF IsW(s, 4 + k, ")") /\ IsW(s, o, "(") /\ CloseAt(s, o + 1, 0) # 0
                THEN LET cl == CloseAt(s, o + 1, 0)
                         args == ParseArgs(SubSeq(s, o + 1, cl - 1))
                     IN IF args # <<>> /\ args[1] = HFail THEN HFail
                        ELSE ParseSuffix(HPtr(HFunc(t, args, s[2].n),
                                              HasQ(s, 4, "const"), HasQ(s, 4, "volatile")),
                                         Rest(s, cl + 1))
                ELSE HFail
        ELSE HFail
    ELSE HFail

\* A type expression: qualifiers, a base type name, declarator suffixes.
ParseType(s) ==
    LET k == QualLen(s, 1)
        c == HasQ(s, 1, "const")
        v == HasQ(s, 1, "volatile")
        b == k + 1
    IN IF b > Len(s) THEN HFail
       ELSE IF s[b] = Tok("struct") THEN
           IF b + 1 <= Len(s) /\ s[b + 1].s \in StructNames
           THEN ParseSuffix(HStruct(s[b + 1].s, c, v), Rest(s, b + 2))
           ELSE HFail
       ELSE IF s[b].s \in HostNames
           THEN ParseSuffix(HPrim(s[b].s, c, v), Rest(s, b + 1))
           ELSE HFail

\* idaapi.parse_decl(tif, idati, decl, PT_TYP): the parsed type, or HFail
\* (the call returns None and leaves tif empty).
parse_decl(decl) ==
    IF decl # <<>> /\ decl[Len(decl)] = Semi
    THEN ParseType(SubSeq(decl, 1, Len(decl) - 1))
    ELSE HFail

\* tinfo_t.is_funcptr()
is_funcptr(tif) == tif.k = "ptr" /\ tif.sub[1].k = "func"

RECURSIVE HostSize(_, _)
\* tinfo_t.get_size() with pointers of p bytes; -1 is the host's BADSIZE.
HostSize(t, p) ==
    CASE t.k = "prim" -> HostPrimSize(t.name)
      [] t.k = "ptr" -> p
      [] t.k = "array" -> IF HostSize(t.sub[1], p) < 0 THEN -1 ELSE t.n * HostSize(t.sub[1], p)
      [] OTHER -> -1

\* Widths the host may report for 'void *'.
HostPointerSizes == {4, 8}
\* Renderings the host may give the empty tinfo_t.
HostEmptyStrs == {<<>>, <<Tok("?")>>}

\* ------------------------------------------------------- module globals
VARIABLES heap, ret, POITNER_SIZE, emptyStr

vars == <<heap, ret, POITNER_SIZE, emptyStr>>

\* get_pointer_size(): the host's size of 'void *'.
get_pointer_size(p) == HostSize(parse_decl(<<Tok("void"), Tok("*"), Semi>>), p)

\* Names bound at module level once types.py is imported.
Globals == {"idaapi", "enum", "get_pointer_size", "POITNER_SIZE", "TYPE_ALIASES",
            "CallingConventions", "Type", "Field"}

TYPE_ALIASES ==
    (<<Tok("int")>> :> <<Tok("int32_t")>>)
    @@ (<<Tok("uint")>> :> <<Tok("uint32_t")>>)
    @@ (<<Tok("boolean")>> :> <<Tok("bool")>>)

\* Values of the CallingConventions members.
CallingConventions == {0, 16, 32, 48, 64, 80, 96, 112, 128, 144, 160}

RECURSIVE Xor(_, _)
\* Python's a ^ b on non-negative integers.
Xor(a, b) ==
    IF a = 0 /\ b = 0 THEN 0
    ELSE (((a % 2) + (b % 2)) % 2) + (2 * Xor(a \div 2, b \div 2))

\* ------------------------------------------------------------- Type.__init__
\* The fields every Type starts with; is_const holds the instance attribute
\* named is_const when one was assigned (it then hides the method).
BlankType ==
    [_decl |-> <<Tok("?")>>, _is_const |-> FALSE, _is_volatile |-> FALSE,
     _contained_type |-> 0, _is_ptr |-> FALSE, _is_array |-> FALSE,
     _element_count |-> 0, _is_function |-> FALSE, _ret_type |-> 0,
     _arg_types |-> <<>>, _cc |-> 0, _is_struct |-> FALSE,
     _struct_name |-> <<>>, _fields |-> <<>>, is_const |-> <<>>]

\* What a call that builds an object gives back: the exception raised (""
\* for none), the heap after it, the new object, and for the constructor the
\* string handed to the host parser.
Made(h, id, handed) == [exc |-> "", heap |-> h, id |-> id, handed |-> handed]
Raised(h, exc, handed) == [exc |-> exc, heap |-> h, id |-> 0, handed |-> handed]

\* Mutant of Aliased: the alias is substituted for a leading alias name
\* wherever it stands, not only when it is the whole declaration.
Aliased_leading(decl) ==
    IF decl # <<>> /\ <<decl[1]>> \in DOMAIN TYPE_ALIASES
    THEN TYPE_ALIASES[<<decl[1]>>] \o Tail(decl)
    ELSE decl

\* if decl in TYPE_ALIASES: decl = TYPE_ALIASES[decl]
Aliased(decl) == IF decl \in DOMAIN TYPE_ALIASES THEN TYPE_ALIASES[decl] ELSE decl

\* decl if decl.endswith(';') else f'{decl};'
Terminated(decl) == IF decl[Len(decl)] = Semi THEN decl ELSE decl \o <<Semi>>

\* len(decl) == 0
EmptyDecl(decl) == Len(decl) = 0

\* Mutant of PtrFlag: a function type keeps reporting itself as a pointer.
PtrFlag_kept(is_ptr, is_function) == is_ptr

\* self._is_ptr once the function branch has run
PtrFlag(is_ptr, is_function) == IF is_function THEN FALSE ELSE is_ptr

\* Mutant of ParseRejected: the parser's failure goes unnoticed.
ParseRejected_never(tif) == FALSE

\* success is None
ParseRejected(tif) == tif = HFail

\* CallingConventions(cc), falling back to CallingConventions(cc ^ 3):
\* the member's value, or ValueError from the fallback.
ToCallingConvention(cc) ==
    IF cc \in CallingConventions THEN [exc |-> "", val |-> cc]
    ELSE IF Xor(cc, 3) \in CallingConventions THEN [exc |-> "", val |-> Xor(cc, 3)]
    ELSE [exc |-> "ValueError", val |-> 0]

RECURSIVE Type(_, _, _)

\* Lines 134-138: a struct raises; otherwise the object is complete.
TypeStruct(h, decl, tif, self, hf) ==
    IF tif.k = "struct" THEN Raised(h, "NotImplementedError", decl)
    ELSE Made(hf, self, decl)

RECURSIVE TypeArgs(_, _, _, _, _, _, _)
RECURSIVE TypeArg(_, _, _, _, _, _, _)
\* Lines 131-132: for idx in range(tif.get_nargs()): append Type(nth arg).
TypeArgs(h, decl, tif, self, hh, idx, e) ==
    IF idx > Len(tif.sub[1].args) THEN TypeStruct(h, decl, tif, self, hh)
    ELSE TypeArg(h, decl, tif, self, idx, Type(hh, dstrOf(tif.sub[1].args[idx], e), e), e)

\* One argument built (ra), appended to self._arg_types.
TypeArg(h, decl, tif, self, idx, ra, e) ==
    IF ra.exc # "" THEN Raised(h, ra.exc, decl)
    ELSE TypeArgs(h, decl, tif, self,
                  [ra.heap EXCEPT ![self]._arg_types = Append(@, ra.id)], idx + 1, e)

\* Lines 127-130: the calling convention cc (looked up) is stored.
TypeCC(h, decl, tif, self, hr, cc, e) ==
    IF cc.exc # "" THEN Raised(h, cc.exc, decl)
    ELSE TypeArgs(h, decl, tif, self, [hr EXCEPT ![self]._cc = cc.val], 1, e)

\* Lines 122-123: the pointer flag is cleared, the return type rr stored.
TypeRet(h, decl, tif, self, rr, e) ==
    IF rr.exc # "" THEN Raised(h, rr.exc, decl)
    ELSE TypeCC(h, decl, tif, self,
                [rr.heap EXCEPT ![self]._is_ptr = PtrFlag(@, TRUE),
                                ![self]._ret_type = rr.id],
                ToCallingConvention(tif.sub[1].n), e)

\* Lines 121-132: if self._is_function.
TypeFunction(h, decl, tif, self, h1, e) ==
    IF h1[self]._is_function
    THEN TypeRet(h, decl, tif, self, Type(h1, dstrOf(tif.sub[1].sub[1], e), e), e)
    ELSE TypeStruct(h, decl, tif, self, h1)

\* Lines 116 and 118-119: the contained type rc and the element count.
TypeBoxed(h, decl, tif, self, rc, e) ==
    IF rc.exc # "" THEN Raised(h, rc.exc, decl)
    ELSE TypeFunction(h, decl, tif, self,
                      [rc.heap EXCEPT
                         ![self]._contained_type = rc.id,
                         ![self]._element_count = IF tif.k = "array" THEN tif.n ELSE @],
                      e)

\* Lines 115-119: a pointer that is no function, or else an array, gets its
\* contained type.
TypeContained(h, decl, tif, self, h0, e) ==
    IF (h0[self]._is_ptr /\ ~h0[self]._is_function) \/ h0[self]._is_array
    THEN TypeBoxed(h, decl, tif, self, Type(h0, dstrOf(tif.sub[1], e), e), e)
    ELSE TypeFunction(h, decl, tif, self, h0, e)

\* Lines 103-113: a rejected declaration raises; otherwise the flags are
\* read off the parsed type.
TypeFlags(h, decl, tif, e) ==
    IF ParseRejected(tif) THEN Raised(h, "ValueError", decl)
    ELSE TypeContained(h, decl, tif, Len(h) + 1,
                       Append(h, [BlankType EXCEPT
                                    !._decl = dstrOf(tif, e),
                                    !._is_const = tif.c,
                                    !._is_volatile = tif.v,
                                    !._is_ptr = tif.k = "ptr",
                                    !._is_array = tif.k = "array",
                                    !._is_function = is_funcptr(tif)]),
                       e)

\* Lines 100-102: the terminated declaration goes to the host parser.
TypeParse(h, decl, e) == TypeFlags(h, decl, parse_decl(decl), e)

\* Type(decl) for a string decl, on heap h (lines 91-98).
Type(h, decl, e) ==
    IF EmptyDecl(Aliased(decl)) THEN Raised(h, "ValueError", <<>>)
    ELSE TypeParse(h, Terminated(Aliased(decl)), e)

\* Constructor arguments: None, a string, or a host tinfo_t.
DeclNone == [kind |-> "none", str |-> <<>>, tif |-> HEmpty]
DeclStr(s) == [kind |-> "str", str |-> s, tif |-> HEmpty]
DeclTif(t) == [kind |-> "tinfo", str |-> <<>>, tif |-> t]

\* Type.__init__(decl)
TypeNew(h, d, e) ==
    CASE d.kind = "none" -> Made(Append(h, BlankType), Len(h) + 1, <<>>)
      [] d.kind = "tinfo" -> Type(h, dstrOf(d.tif, e), e)
      [] OTHER -> Type(h, d.str, e)

\* ------------------------------------------------------------ Type methods
HRaise == HT("raise", "NotImplementedError", FALSE, FALSE, 0, <<>>, <<>>)

\* tinfo_t.create_ptr, create_array and create_func over the parts' host
\* types; an exception raised while a part was built passes through.
create_ptr(t) == IF t = HRaise THEN HRaise ELSE HPtr(t, FALSE, FALSE)
create_array(t, nelems) == IF t = HRaise THEN HRaise ELSE HArray(t, nelems)
create_func(rettype, args, cc) ==
    IF rettype = HRaise \/ \E i \in 1..Len(args) : args[i] = HRaise THEN HRaise
    ELSE HPtr(HFunc(rettype, args, cc), FALSE, FALSE)
\* The tinfo_t a parse_decl call leaves behind: empty when it failed.
Parsed(t) == IF t = HFail THEN HEmpty ELSE t

RECURSIVE get_tinfo(_, _, _)
\* Type.get_tinfo(): the host type rebuilt from the fields (HRaise when the
\* struct branch raises NotImplementedError).
get_tinfo(h, self, e) ==
    IF h[self]._is_ptr THEN create_ptr(get_tinfo(h, h[self]._contained_type, e))
    ELSE IF h[self]._is_array
    THEN create_array(get_tinfo(h, h[self]._contained_type, e), h[self]._element_count)
    ELSE IF h[self]._is_function
    THEN create_func(get_tinfo(h, h[self]._ret_type, e),
                     [i \in 1..Len(h[self]._arg_types) |->
                        get_tinfo(h, h[self]._arg_types[i], e)],
                     h[self]._cc)
    ELSE IF h[self]._is_struct THEN HRaise
    ELSE Parsed(parse_decl(h[self]._decl \o <<Semi>>))

\* tinfo_t.dstr() of what get_tinfo() gave.
Rendered(t, e) ==
    IF t = HRaise THEN [exc |-> "NotImplementedError", s |-> <<>>]
    ELSE [exc |-> "", s |-> dstrOf(t, e)]

\* Type.__str__()
str(h, self, e) == Rendered(get_tinfo(h, self, e), e)

\* tinfo_t.__eq__ of what the two get_tinfo() calls gave.
Same(t, u) ==
    IF t = HRaise \/ u = HRaise THEN [exc |-> "NotImplementedError", b |-> FALSE]
    ELSE [exc |-> "", b |-> (t = u)]

\* Type.__eq__(other)
eq(h, self, other, e) == Same(get_tinfo(h, self, e), get_tinfo(h, other, e))

\* Type(r) for the rendering r of a type.
Reparsed(h, r, e) == IF r.exc # "" THEN Raised(h, r.exc, <<>>) ELSE Type(h, r.s, e)

\* Type.clone()
clone(h, self, e) == Reparsed(h, str(h, self, e), e)

\* The truth value of self.is_pointer, a bound method that is not called.
BoundMethodTruthy == TRUE

\* A module-level name read inside a method: its value, or NameError.
LookupGlobal(name, p) ==
    IF name \in Globals THEN [exc |-> "", n |-> IF name = "POITNER_SIZE" THEN p ELSE 0]
    ELSE [exc |-> "NameError", n |-> 0]

\* self._element_count * (what get_size() of the contained type gave)
Times(element_count, r) ==
    IF r.exc # "" THEN r ELSE [exc |-> "", n |-> element_count * r.n]

\* tinfo_t.get_size() of what get_tinfo() gave.
SizeOf(t, p) ==
    IF t = HRaise THEN [exc |-> "NotImplementedError", n |-> 0]
    ELSE [exc |-> "", n |-> HostSize(t, p)]

RECURSIVE get_size(_, _, _, _)
\* Type.get_size()
get_size(h, self, e, p) ==
    IF h[self]._is_array
    THEN Times(h[self]._element_count, get_size(h, h[self]._contained_type, e, p))
    ELSE IF BoundMethodTruthy \/ h[self]._is_function THEN LookupGlobal("POINTER_SIZE", p)
    ELSE SizeOf(get_tinfo(h, self, e), p)

\* The object get_pointer_to/get_array_of stores as the contained type.
Contained(h, self, e) == clone(h, self, e)

\* The new object box gets the contained type c built for it.
Boxing(h, box, c) ==
    IF c.exc # "" THEN Raised(h, c.exc, <<>>)
    ELSE Made([c.heap EXCEPT ![box]._contained_type = c.id], box, <<>>)

\* get_pointer_to once self is rendered as r.
PointerTo(h, self, r, e) ==
    IF r.exc # "" THEN Raised(h, r.exc, <<>>)
    ELSE IF r.s = <<>> THEN Raised(h, "ValueError", <<>>)
    ELSE Boxing(h, Len(h) + 1,
                Contained(Append(h, [BlankType EXCEPT !._is_ptr = TRUE]), self, e))

\* Type.get_pointer_to()
get_pointer_to(h, self, e) == PointerTo(h, self, str(h, self, e), e)

\* Type.get_array_of(element_count), element_count an int
get_array_of(h, self, element_count, e) ==
    IF element_count <= 0 THEN Raised(h, "ValueError", <<>>)
    ELSE Boxing(h, Len(h) + 1,
                Contained(Append(h, [BlankType EXCEPT !._is_array = TRUE,
                                                      !._element_count = element_count]),
                          self, e))

\* Type.get_contained_type()
get_contained_type(h, self, e) ==
    IF ~h[self]._is_array /\ ~h[self]._is_ptr THEN Raised(h, "ValueError", <<>>)
    ELSE clone(h, h[self]._contained_type, e)

RECURSIVE Reach(_, _)
\* The objects an object refers to, itself included.
Reach(h, id) ==
    IF id = 0 THEN {}
    ELSE {id} \cup Reach(h, h[id]._contained_type) \cup Reach(h, h[id]._ret_type)
         \cup UNION {Reach(h, h[id]._arg_types[i]) : i \in 1..Len(h[id]._arg_types)}

\* Type.is_const(): the method, unless an instance attribute hides it.
is_const(h, self) ==
    IF h[self].is_const = <<>> THEN [exc |-> "", b |-> h[self]._is_const]
    ELSE [exc |-> "TypeError", b |-> FALSE]

\* Type.is_volatile()
is_volatile(h, self) == [exc |-> "", b |-> h[self]._is_volatile]

\* Type.toggle_const(): self.is_const = not self._is_const
toggle_const(o) == [o EXCEPT !.is_const = <<~o._is_const>>]

\* Type.toggle_volatile()
toggle_volatile(o) == [o EXCEPT !._is_volatile = ~o._is_volatile]

\* ------------------------------------------------------------------ state
\* ret: the last call and what it gave back (exc: the exception raised, ""
\* for none; id: the object returned; b, n, s, ids: the value returned; d,
\* arg: the arguments).
NoCall ==
    [op |-> "", self |-> 0, exc |-> "", b |-> FALSE, n |-> 0, s |-> <<>>,
     ids |-> <<>>, id |-> 0, d |-> DeclNone, arg |-> 0]

Call(op, self) == [NoCall EXCEPT !.op = op, !.self = self]

Init ==
    /\ heap = <<>>
    /\ ret = NoCall
    /\ emptyStr \in HostEmptyStrs
    /\ \E p \in HostPointerSizes : POITNER_SIZE = get_pointer_size(p)

Host == <<POITNER_SIZE, emptyStr>>
Objs == DOMAIN heap

\* A call that builds objects, or raises and builds none.
Builds(r, call) ==
    /\ heap' = r.heap
    /\ ret' = [call EXCEPT !.exc = r.exc, !.id = r.id, !.s = r.handed]
    /\ UNCHANGED Host

\* A call that only reads.
Reads(call) == ret' = call /\ UNCHANGED <<heap, Host>>

\* A call that assigns fields of self when guard holds, and raises exc
\* otherwise.
Writes(call, guard, exc, o) ==
    /\ ret' = [call EXCEPT !.exc = IF guard THEN "" ELSE exc]
    /\ heap' = IF guard THEN [heap EXCEPT ![call.self] = o] ELSE heap
    /\ UNCHANGED Host

\* ---------------------------------------------------------------- actions
New(d) == Builds(TypeNew(heap, d, emptyStr), [Call("__init__", 0) EXCEPT !.d = d])

Clone(self) == Builds(clone(heap, self, emptyStr), Call("clone", self))

Str(self) ==
    LET r == str(heap, self, emptyStr)
    IN Reads([Call("__str__", self) EXCEPT !.exc = r.exc, !.s = r.s])

Eq(self, other) ==
    LET r == eq(heap, self, other, emptyStr)
    IN Reads([Call("__eq__", self) EXCEPT !.exc = r.exc, !.b = r.b, !.arg = other])

Register(self) == Reads([Call("register", self) EXCEPT !.exc = "NotImplementedError"])

IsConst(self) ==
    LET r == is_const(heap, self)
    IN Reads([Call("is_const", self) EXCEPT !.exc = r.exc, !.b = r.b])

IsVolatile(self) ==
    LET r == is_volatile(heap, self)
    IN Reads([Call("is_volatile", self) EXCEPT !.exc = r.exc, !.b = r.b])

SetConst(self) ==
    Writes(Call("set_const", self), TRUE, "", [heap[self] EXCEPT !._is_const = TRUE])

SetVolatile(self) ==
    Writes(Call("set_volatile", self), TRUE, "", [heap[self] EXCEPT !._is_volatile = TRUE])

ClearConst(self) ==
    Writes(Call("clear_const", self), TRUE, "", [heap[self] EXCEPT !._is_const = FALSE])

ClearVolatile(self) ==
    Writes(Call("clear_volatile", self), TRUE, "", [heap[self] EXCEPT !._is_volatile = FALSE])

ToggleConst(self) == Writes(Call("toggle_const", self), TRUE, "", toggle_const(heap[self]))

ToggleVolatile(self) ==
    Writes(Call("toggle_volatile", self), TRUE, "", toggle_volatile(heap[self]))

IsPointer(self) == Reads([Call("is_pointer", self) EXCEPT !.b = heap[self]._is_ptr])

IsArray(self) == Reads([Call("is_array", self) EXCEPT !.b = heap[self]._is_array])

IsFunction(self) == Reads([Call("is_function", self) EXCEPT !.b = heap[self]._is_function])

IsStruct(self) == Reads([Call("is_struct", self) EXCEPT !.b = heap[self]._is_struct])

GetSize(self) ==
    LET r == get_size(heap, self, emptyStr, POITNER_SIZE)
    IN Reads([Call("get_size", self) EXCEPT !.exc = r.exc, !.n = r.n])

GetPointerTo(self) == Builds(get_pointer_to(heap, self, emptyStr), Call("get_pointer_to", self))

GetArrayOf(self, element_count) ==
    Builds(get_array_of(heap, self, element_count, emptyStr),
           [Call("get_array_of", self) EXCEPT !.arg = element_count])

GetContainedType(self) ==
    Builds(get_contained_type(heap, self, emptyStr), Call("get_contained_type", self))

\* contained_type is a Type that does not refer back to self.
SetContainedType(self, contained_type) ==
    /\ self \notin Reach(heap, contained_type)
    /\ Writes([Call("set_contained_type", self) EXCEPT !.arg = contained_type],
              heap[self]._is_array \/ heap[self]._is_ptr, "ValueError",
              [heap[self] EXCEPT !._contained_type = contained_type])

GetElementCount(self) ==
    Reads([Call("get_element_count", self) EXCEPT
             !.exc = IF heap[self]._is_array THEN "" ELSE "ValueError",
             !.n = IF heap[self]._is_array THEN heap[self]._element_count ELSE 0])

SetElementCount(self, element_count) ==
    Writes([Call("set_element_count", self) EXCEPT !.arg = element_count],
           heap[self]._is_array, "ValueError",
           [heap[self] EXCEPT !._element_count = element_count])

GetArgs(self) ==
    Reads([Call("get_args", self) EXCEPT
             !.exc = IF heap[self]._is_function THEN "" ELSE "ValueError",
             !.ids = IF heap[self]._is_function THEN heap[self]._arg_types ELSE <<>>])

GetRetType(self) ==
    Reads([Call("get_ret_type", self) EXCEPT
             !.exc = IF heap[self]._is_function THEN "" ELSE "ValueError",
             !.id = IF heap[self]._is_function THEN heap[self]._ret_type ELSE 0])

GetCallingConvention(self) ==
    Reads([Call("get_calling_convention", self) EXCEPT
             !.exc = IF heap[self]._is_function THEN "" ELSE "ValueError",
             !.n = IF heap[self]._is_function THEN heap[self]._cc ELSE 0])

\* args is a list of one Type that does not refer back to self.
SetArgs(self, arg) ==
    /\ self \notin Reach(heap, arg)
    /\ Writes([Call("set_args", self) EXCEPT !.arg = arg],
              heap[self]._is_function, "ValueError",
              [heap[self] EXCEPT !._arg_types = <<arg>>])

SetRetType(self, ret_type) ==
    /\ self \notin Reach(heap, ret_type)
    /\ Writes([Call("set_ret_type", self) EXCEPT !.arg = ret_type],
              heap[self]._is_function, "ValueError",
              [heap[self] EXCEPT !._ret_type = ret_type])

\* cc is a CallingConventions member (is_member) or an int.
SetCallingConvention(self, cc, is_member) ==
    LET bad == ~is_member /\ cc \notin CallingConventions
    IN /\ is_member => cc \in CallingConventions
       /\ Writes([Call("set_calling_convention", self) EXCEPT !.arg = cc],
                 heap[self]._is_function /\ ~bad, "ValueError",
                 [heap[self] EXCEPT !._cc = cc])

GetStructName(self) == Reads([Call("get_struct_name", self) EXCEPT !.s = heap[self]._struct_name])

GetFields(self) ==
    Reads([Call("get_fields", self) EXCEPT
             !.exc = IF heap[self]._is_struct THEN "" ELSE "ValueError",
             !.ids = IF heap[self]._is_struct THEN heap[self]._fields ELSE <<>>])

SetStructName(self, struct_name) ==
    Writes(Call("set_struct_name", self), TRUE, "",
           [heap[self] EXCEPT !._struct_name = struct_name])

SetFields(self, fields) ==
    Writes(Call("set_fields", self), heap[self]._is_struct, "ValueError",
           [heap[self] EXCEPT !._fields = fields])

\* ----------------------------------------------------------------- inputs
Words(ws) == [i \in 1..Len(ws) |-> Tok(ws[i])]

\* A function-pointer declaration with raw calling convention cc.
FuncDecl(rettype, cc, args) ==
    Words(<<rettype, "(">>) \o <<Num(cc)>> \o Words(<<"*", ")", "(">>) \o args \o Words(<<")">>)

DeclsInit ==
    {DeclNone, DeclTif(HPrim("int", FALSE, FALSE))}
    \cup {DeclStr(Words(ws)) : ws \in
            {<<>>, <<"int">>, <<"uint">>, <<"boolean">>, <<"int", ";">>, <<"char">>,
             <<"volatile", "const", "char">>, <<"foo">>, <<";">>,
             <<"char", "*", "const">>, <<"int", "*">>, <<"struct", "S">>}}
    \cup {DeclStr(Words(<<"const", "char", "[">>) \o <<Num(2)>> \o Words(<<"]">>)),
          DeclStr(FuncDecl("void", 48, <<>>))}

Fits(max) == Len(heap') <= max

NextInit ==
    \/ \E d \in DeclsInit : New(d) /\ Fits(MaxInitObjs)
    \/ \E o \in Objs : Clone(o) /\ Fits(MaxInitObjs)
    \/ \E o \in Objs : Str(o)
    \/ \E o, other \in Objs : Eq(o, other)

SpecInit == Init /\ [][NextInit]_vars

\* Declarations that name no alias, with and without qualifiers.
DeclsRound ==
    {DeclStr(Words(ws)) : ws \in
        {<<"char">>, <<"volatile", "const", "char">>, <<"char", "*", "const">>,
         <<"const", "char", "*">>, <<"char", "*", "volatile">>, <<"struct", "S">>}}
    \cup {DeclStr(Words(<<"const", "char", "[">>) \o <<Num(2)>> \o Words(<<"]">>)),
          DeclStr(FuncDecl("void", 48, <<>>))}

NextRound ==
    \/ \E d \in DeclsRound : New(d) /\ Fits(MaxInitObjs)
    \/ \E o \in Objs : Clone(o) /\ Fits(MaxInitObjs)
    \/ \E o \in Objs : Str(o)
    \/ \E o, other \in Objs : Eq(o, other)

SpecRound == Init /\ [][NextRound]_vars

DeclsFlags ==
    {DeclNone} \cup {DeclStr(Words(ws)) : ws \in
        {<<"char">>, <<"const", "char">>, <<"volatile", "char">>}}

NextFlags ==
    \/ \E d \in DeclsFlags : New(d) /\ Fits(MaxFlagObjs)
    \/ \E o \in Objs : IsConst(o)
    \/ \E o \in Objs : IsVolatile(o)
    \/ \E o \in Objs : SetConst(o)
    \/ \E o \in Objs : SetVolatile(o)
    \/ \E o \in Objs : ClearConst(o)
    \/ \E o \in Objs : ClearVolatile(o)
    \/ \E o \in Objs : ToggleConst(o)
    \/ \E o \in Objs : ToggleVolatile(o)

SpecFlags == Init /\ [][NextFlags]_vars

DeclsSize ==
    {DeclStr(Words(ws)) : ws \in {<<"char">>, <<"int">>, <<"char", "*">>}}
    \cup {DeclStr(Words(<<"int", "[">>) \o <<Num(2)>> \o Words(<<"]">>)),
          DeclStr(FuncDecl("void", 48, <<>>))}

NextSize ==
    \/ \E d \in DeclsSize : New(d) /\ Fits(MaxSizeObjs)
    \/ \E o \in Objs : GetPointerTo(o) /\ Fits(MaxSizeObjs)
    \/ \E o \in Objs, n \in 0..MaxCount : GetArrayOf(o, n) /\ Fits(MaxSizeObjs)
    \/ \E o \in Objs : GetSize(o)

SpecSize == Init /\ [][NextSize]_vars

\* Raw calling conventions tried: every convention nibble, with the low
\* (memory model) bits all clear, one set, or the two lowest set.
RawCCs == {cc \in 0..MaxRawCC : cc % 16 \in {0, 1, 3}}

DeclsCC == {DeclStr(FuncDecl("void", cc, Words(<<"char">>))) : cc \in RawCCs}

NextCC ==
    \/ \E d \in DeclsCC : New(d) /\ Fits(MaxCCObjs)
    \/ \E o \in Objs : GetCallingConvention(o)

SpecCC == Init /\ [][NextCC]_vars

DeclsBox ==
    {DeclNone, DeclStr(Words(<<"int", ";">>)), DeclStr(FuncDecl("void", 48, <<>>))}

\* Arguments of set_calling_convention, <<value, is a member>>: a member, and
\* an int that is no member's value; and with them an int that is one.
CCArgsBox == {<<80, TRUE>>, <<17, FALSE>>}
CCArgs == CCArgsBox \cup {<<16, FALSE>>}

\* Element counts handed to get_array_of and set_element_count below.
CountsBox == {0, 1}

\* The descriptor the last call returned: below, a descriptor is configured
\* with the setters right after it is obtained.
Latest == {ret.id} \ {0}

NextBox ==
    \/ \E d \in DeclsBox : New(d) /\ Fits(MaxBoxObjs)
    \/ \E o \in Objs : Clone(o) /\ Fits(MaxBoxObjs)
    \/ \E o \in Objs : GetPointerTo(o) /\ Fits(MaxBoxObjs)
    \/ \E o \in Objs, n \in CountsBox : GetArrayOf(o, n) /\ Fits(MaxBoxObjs)
    \/ \E o \in Objs : GetContainedType(o) /\ Fits(MaxBoxObjs)
    \/ \E o \in Latest, c \in Objs : SetContainedType(o, c)
    \/ \E o \in Latest, n \in CountsBox : SetElementCount(o, n)
    \/ \E o \in Latest, a \in Objs : SetArgs(o, a)
    \/ \E o \in Latest, r \in Objs : SetRetType(o, r)
    \/ \E o \in Latest, cc \in CCArgsBox : SetCallingConvention(o, cc[1], cc[2])
    \/ \E o \in Latest : SetStructName(o, Words(<<"S">>))
    \/ \E o \in Latest : SetFields(o, <<>>)

SpecBox == Init /\ [][NextBox]_vars

DeclsAccess ==
    {DeclStr(Words(ws)) : ws \in {<<"char">>, <<"char", "*">>}}
    \cup {DeclStr(Words(<<"char", "[">>) \o <<Num(2)>> \o Words(<<"]">>)),
          DeclStr(FuncDecl("void", 48, <<>>))}

NextAccess ==
    \/ \E d \in DeclsAccess : New(d) /\ Fits(MaxAccessObjs)
    \/ \E o \in Objs : GetContainedType(o) /\ Fits(MaxAccessObjs)
    \/ \E o, c \in Objs : SetContainedType(o, c)
    \/ \E o \in Objs : GetElementCount(o)
    \/ \E o \in Objs, n \in 0..MaxCount : SetElementCount(o, n)
    \/ \E o \in Objs : GetArgs(o)
    \/ \E o, a \in Objs : SetArgs(o, a)
    \/ \E o \in Objs : GetRetType(o)
    \/ \E o, r \in Objs : SetRetType(o, r)
    \/ \E o \in Objs : GetCallingConvention(o)
    \/ \E o \in Objs, cc \in CCArgs : SetCallingConvention(o, cc[1], cc[2])
    \/ \E o \in Objs : GetStructName(o)
    \/ \E o \in Objs : SetStructName(o, Words(<<"S">>))
    \/ \E o \in Objs : GetFields(o)
    \/ \E o \in Objs : SetFields(o, <<>>)
    \/ \E o \in Objs : IsPointer(o)
    \/ \E o \in Objs : IsArray(o)
    \/ \E o \in Objs : IsFunction(o)
    \/ \E o \in Objs : IsStruct(o)
    \/ \E o \in Objs : Register(o)

SpecAccess == Init /\ [][NextAccess]_vars

\* ------------------------------------------------- claims on construction
\* The declaration of the last constructor call, as a string.
GivenDecl(d) == IF d.kind = "tinfo" THEN dstrOf(d.tif, emptyStr) ELSE d.str

\* C6: a constructor call on an empty declaration, or on one the host parser
\* rejects, raises ValueError and leaves the heap as it was (no descriptor);
\* a call with decl=None raises nothing and adds one blank descriptor, all
\* of whose category flags are false.
C6_BadDeclRaises ==
    [][ret'.op = "__init__" =>
         /\ (ret'.d.kind = "str" /\ ret'.d.str = <<>>)
               => (ret'.exc = "ValueError" /\ heap' = heap /\ ret'.id = 0)
         /\ (ret'.d.kind # "none" /\ ret'.s # <<>> /\ parse_decl(ret'.s) = HFail)
               => (ret'.exc = "ValueError" /\ heap' = heap /\ ret'.id = 0)
         /\ ret'.d.kind = "none"
               => /\ ret'.exc = ""
                  /\ ret'.id = Len(heap) + 1
                  /\ heap' = Append(heap, BlankType)
                  /\ ~heap'[ret'.id]._is_ptr /\ ~heap'[ret'.id]._is_array
                  /\ ~heap'[ret'.id]._is_function /\ ~heap'[ret'.id]._is_struct]_vars

\* A rejected declaration has raised ValueError.
C6_Witness ==
    /\ ret.op = "__init__" /\ ret.d = DeclStr(Words(<<"foo">>))
    /\ ret.s = Words(<<"foo", ";">>) /\ ret.exc = "ValueError"

\* C7: the string the constructor hands to the host parser is int32_t for
\* int, uint32_t for uint, bool for boolean, and any other declaration
\* itself, each with a ";" appended unless it already ends in one.
C7_AliasThenTerminate ==
    (ret.op = "__init__" /\ ret.d.kind # "none" /\ GivenDecl(ret.d) # <<>>) =>
        LET d == GivenDecl(ret.d)
            a == IF d = Words(<<"int">>) THEN Words(<<"int32_t">>)
                 ELSE IF d = Words(<<"uint">>) THEN Words(<<"uint32_t">>)
                 ELSE IF d = Words(<<"boolean">>) THEN Words(<<"bool">>)
                 ELSE d
        IN ret.s = IF a[Len(a)] = Tok(";") THEN a ELSE a \o Words(<<";">>)

\* boolean was handed to the parser as bool;
C7_Witness ==
    /\ ret.op = "__init__" /\ ret.d = DeclStr(Words(<<"boolean">>))
    /\ ret.s = Words(<<"bool", ";">>) /\ ret.exc = ""

\* C8: for a declaration the host accepts (as handed to its parser) and the
\* constructor builds a Type from, str() of the Type is the host's rendering
\* of that declaration, Type(str(T)) == T, and T.clone() == T.
C8_RoundTrip ==
    (ret.op = "__init__" /\ ret.d.kind = "str" /\ ret.exc = "") =>
        LET T == ret.id
            rendered == str(heap, T, emptyStr)
            again == Type(heap, rendered.s, emptyStr)
            cloned == clone(heap, T, emptyStr)
        IN /\ rendered.exc = ""
           /\ rendered.s = dstrOf(parse_decl(ret.s), emptyStr)
           /\ again.exc = "" /\ eq(again.heap, again.id, T, emptyStr).b
           /\ cloned.exc = "" /\ eq(cloned.heap, cloned.id, T, emptyStr).b

\* -------------------------------------------------- claims on the flags
ConstOps == {"set_const", "clear_const", "toggle_const"}
VolatileOps == {"set_volatile", "clear_volatile", "toggle_volatile"}

\* The category fields of an object.
Category(o) ==
    <<o._is_ptr, o._is_array, o._is_function, o._is_struct, o._contained_type,
      o._element_count, o._ret_type, o._arg_types, o._cc, o._struct_name, o._fields>>

\* C10: set_const/clear_const make is_const() return True/False,
\* toggle_const makes it return the negation of the flag before the call,
\* likewise the volatile operations and is_volatile(); a const operation
\* leaves is_volatile() and the category fields alone, and a volatile
\* operation leaves is_const() and the category fields alone.
C10_FlagsIndependent ==
    [][LET o == ret'.self
       IN /\ ret'.op = "set_const" => is_const(heap', o) = [exc |-> "", b |-> TRUE]
          /\ ret'.op = "clear_const" => is_const(heap', o) = [exc |-> "", b |-> FALSE]
          /\ ret'.op = "toggle_const"
                => is_const(heap', o) = [exc |-> "", b |-> ~heap[o]._is_const]
          /\ ret'.op = "set_volatile" => is_volatile(heap', o) = [exc |-> "", b |-> TRUE]
          /\ ret'.op = "clear_volatile" => is_volatile(heap', o) = [exc |-> "", b |-> FALSE]
          /\ ret'.op = "toggle_volatile"
                => is_volatile(heap', o) = [exc |-> "", b |-> ~heap[o]._is_volatile]
          /\ ret'.op \in ConstOps
                => /\ is_volatile(heap', o) = is_volatile(heap, o)
                   /\ Category(heap'[o]) = Category(heap[o])
          /\ ret'.op \in VolatileOps
                => /\ is_const(heap', o) = is_const(heap, o)
                   /\ Category(heap'[o]) = Category(heap[o])]_vars

\* ---------------------------------------------------- claims on get_size
\* C2: get_size() of an array returns normally, with the element count times
\* get_size() of the contained type.
C2_ArraySize ==
    (ret.op = "get_size" /\ heap[ret.self]._is_array) =>
        LET o == heap[ret.self]
            inner == get_size(heap, o._contained_type, emptyStr, POITNER_SIZE)
        IN ret.exc = "" /\ inner.exc = "" /\ ret.n = o._element_count * inner.n

\* C3: get_size() of a pointer or a function type returns the pointer width
\* computed at import; of a type that is neither array, pointer nor function
\* it returns the size the host reports for the type.
C3_PointerOrHostSize ==
    (ret.op = "get_size" /\ ~heap[ret.self]._is_array) =>
        LET o == heap[ret.self]
        IN /\ ret.exc = ""
           /\ (o._is_ptr \/ o._is_function) => ret.n = POITNER_SIZE
           /\ ~(o._is_ptr \/ o._is_function)
                 => ret.n = HostSize(get_tinfo(heap, ret.self, emptyStr), POITNER_SIZE)

\* ------------------------------------------------ claims on the categories
\* The category flags of an object that are true.
FlagsSet(o) ==
    {f \in {"pointer", "array", "function", "struct"} :
        \/ f = "pointer" /\ o._is_ptr
        \/ f = "array" /\ o._is_array
        \/ f = "function" /\ o._is_function
        \/ f = "struct" /\ o._is_struct}

\* C5: every descriptor on the heap has at most one of is_pointer(),
\* is_array(), is_function(), is_struct() true, whatever constructions,
\* get_pointer_to, get_array_of, clone, get_contained_type and setter calls
\* came before; a descriptor just constructed from a function-pointer
\* declaration has is_function() true and is_pointer() false.
C5_OneCategory ==
    /\ \A o \in Objs : Cardinality(FlagsSet(heap[o])) <= 1
    /\ (ret.op = "__init__" /\ ret.exc = "" /\ ret.d.kind # "none"
            /\ is_funcptr(parse_decl(ret.s)))
          => (heap[ret.id]._is_function /\ ~heap[ret.id]._is_ptr)

\* A descriptor has been constructed from a function-pointer declaration.
C5_Witness ==
    /\ ret.op = "__init__" /\ ret.exc = ""
    /\ ret.d = DeclStr(FuncDecl("void", 48, <<>>))
    /\ FlagsSet(heap[ret.id]) = {"function"}

\* C1: an accessor or mutator of one category, called on a descriptor of
\* another category, raises ValueError: get/set_contained_type on what is
\* neither pointer nor array, get/set_element_count on a non-array,
\* get/set_args, get/set_ret_type and get/set_calling_convention on a
\* non-function, get/set_fields and get/set_struct_name on a non-struct.
C1_MismatchRaises ==
    ret.self # 0 =>
        LET o == heap[ret.self]
        IN /\ (ret.op \in {"get_contained_type", "set_contained_type"}
                 /\ ~o._is_ptr /\ ~o._is_array) => ret.exc = "ValueError"
           /\ (ret.op \in {"get_element_count", "set_element_count"} /\ ~o._is_array)
                 => ret.exc = "ValueError"
           /\ (ret.op \in {"get_args", "set_args", "get_ret_type", "set_ret_type",
                           "get_calling_convention", "set_calling_convention"}
                 /\ ~o._is_function) => ret.exc = "ValueError"
           /\ (ret.op \in {"get_fields", "set_fields", "get_struct_name",
                           "set_struct_name"} /\ ~o._is_struct)
                 => ret.exc = "ValueError"

\* C4: on a descriptor T that is not a struct, get_pointer_to() and
\* get_array_of(n) with n > 0 return a new pointer, or a new array of n
\* elements, whose get_contained_type() equals T; no object that existed
\* before the call is changed, and the result's contained type shares no
\* object with the objects that existed before the call.
C4_BoxOfClone ==
    [][(/\ ret'.op \in {"get_pointer_to", "get_array_of"}
        /\ ~heap[ret'.self]._is_struct
        /\ ret'.op = "get_array_of" => ret'.arg > 0)
       => LET T == ret'.self
              R == ret'.id
              inner == get_contained_type(heap', R, emptyStr)
          IN /\ ret'.exc = ""
             /\ R \notin DOMAIN heap
             /\ ret'.op = "get_pointer_to" => heap'[R]._is_ptr
             /\ ret'.op = "get_array_of"
                   => (heap'[R]._is_array /\ heap'[R]._element_count = ret'.arg)
             /\ inner.exc = ""
             /\ eq(inner.heap, inner.id, T, emptyStr) = [exc |-> "", b |-> TRUE]
             /\ \A i \in DOMAIN heap : heap'[i] = heap[i]
             /\ Reach(heap', heap'[R]._contained_type) \cap DOMAIN heap = {}]_vars

\* ------------------------------------------ claims on calling conventions
\* C9: constructing from a function-pointer declaration whose raw calling
\* convention is cc raises nothing and sets the calling convention to the
\* CallingConventions member of value cc when there is one, and to the
\* member of value cc XOR 3 otherwise; get_calling_convention() on a
\* function descriptor returns the member stored.
C9_ConventionOrFallback ==
    /\ (ret.op = "__init__" /\ ret.d.kind = "str" /\ is_funcptr(parse_decl(ret.s)))
          => LET cc == parse_decl(ret.s).sub[1].n
             IN /\ ret.exc = ""
                /\ heap[ret.id]._cc \in CallingConventions
                /\ heap[ret.id]._cc = IF cc \in CallingConventions THEN cc ELSE Xor(cc, 3)
    /\ (ret.op = "get_calling_convention" /\ heap[ret.self]._is_function)
          => (ret.exc = "" /\ ret.n = heap[ret.self]._cc)

====
